---- MODULE Spec2Model ----
(***************************************************************************)
(* A model of relstorage's process-local state cache                       *)
(* (src/relstorage/cache/local_client.py, class LocalClient): the value    *)
(* codec, the facade over the segmented-LRU bucket, and the sqlite         *)
(* snapshot reader and writer.                                             *)
(*                                                                         *)
(* Byte strings are sequences of numbers in 0..255.  Three values that are *)
(* no byte strings stand for Python's None and for the two exceptions the  *)
(* codec can raise.                                                        *)
(***************************************************************************)
EXTENDS Integers, Sequences, FiniteSets, TLC

VARIABLES
    limit,          \* self.limit = int(1000000 * options.cache_local_mb)
    value_limit,    \* self._value_limit = options.cache_local_object_max
    compression,    \* options.cache_local_compression
    cache_local_dir,\* whether options.cache_local_dir is set
    supports_upsert,\* sqlite3.sqlite_version_info >= (3, 28)
    bucket,         \* self.__bucket
    checkpoints,    \* self.checkpoints: <<>> for None, or <<cp0, cp1>>
    disk,           \* the snapshot file
    cdata,      \* codec check: the byte string handed to the codec
    calgo,      \* codec check: options.cache_local_compression
    cstage,     \* codec check: "input", "compressed", "done"
    cout,       \* codec check: what compression returned
    cback,      \* codec check: what decompression of cout returned
    procs,      \* the processes that save into one snapshot file
    threads,    \* the threads that call one facade: their calls in progress
    retired,    \* the bucket objects that flush_all replaced
    clock       \* counts the calls and returns of the threads

confVars == <<limit, value_limit, compression, cache_local_dir, supports_upsert>>

cacheVars == <<bucket, checkpoints, disk>>

codecVars == <<cdata, calgo, cstage, cout, cback>>

procVars == <<procs>>

threadVars == <<threads, retired, clock>>

vars == <<confVars, cacheVars, codecVars, procVars, threadVars>>

-----------------------------------------------------------------------------
(* Values                                                                  *)

None == << -1 >>
ZlibError == << -2 >>
TypeError == << -3 >>

IsBytes(x) == \A i \in 1..Len(x) : x[i] \in 0..255

Rep(c, n) == [i \in 1..n |-> c]

Take(s, n) == SubSeq(s, 1, IF Len(s) < n THEN Len(s) ELSE n)

Drop(s, n) == SubSeq(s, n + 1, Len(s))

-----------------------------------------------------------------------------
(* The compression libraries.  zlib and bz2 are modelled as coders with    *)
(* two kinds of block behind a one-byte stream header: a run block         *)
(* <<1, count, byte>> for data that repeats one byte, and a stored block   *)
(* <<0>> \o data for anything else.  compress is injective, decompress is  *)
(* its inverse and raises on anything that is no stream, repetitive data   *)
(* shrinks and other data grows.  bz2 writes the byte before the count.    *)

ZlibHeader == <<120>>
Bz2Header == <<66>>

StoredBlock == 0
RunBlock == 1

OneRun(data) == data # <<>> /\ \A i \in 1..Len(data) : data[i] = data[1]

Deflate(data, countFirst) ==
    IF OneRun(data)
    THEN <<RunBlock>> \o (IF countFirst THEN <<Len(data), data[1]>>
                          ELSE <<data[1], Len(data)>>)
    ELSE <<StoredBlock>> \o data

IsStream(c, countFirst) ==
    /\ c # <<>>
    /\ \/ c[1] = StoredBlock /\ ~OneRun(Drop(c, 1))
       \/ /\ c[1] = RunBlock
          /\ Len(c) = 3
          /\ (IF countFirst THEN c[2] ELSE c[3]) >= 1

Inflate(c, countFirst) ==
    IF c[1] = StoredBlock THEN Drop(c, 1)
    ELSE IF countFirst THEN Rep(c[3], c[2]) ELSE Rep(c[2], c[3])

zlib_compress(data) == ZlibHeader \o Deflate(data, TRUE)

zlib_decompress(data) ==
    IF Take(data, 1) = ZlibHeader /\ IsStream(Drop(data, 1), TRUE)
    THEN Inflate(Drop(data, 1), TRUE)
    ELSE ZlibError

bz2_compress(data) == Bz2Header \o Deflate(data, FALSE)

bz2_decompress(data) ==
    IF Take(data, 1) = Bz2Header /\ IsStream(Drop(data, 1), FALSE)
    THEN Inflate(Drop(data, 1), FALSE)
    ELSE ZlibError

-----------------------------------------------------------------------------
(* LocalClient: the codec                                                  *)

MarkerZ == <<46, 122>>
MarkerB == <<46, 98>>

Algorithms == {"zlib", "bz2", "none"}

\* _compression_markers[module][0]
compression_marker(alg) == IF alg = "zlib" THEN MarkerZ ELSE MarkerB

\* _compression_markers[module][1]
compress_function(alg, data) ==
    IF alg = "zlib" THEN zlib_compress(data) ELSE bz2_compress(data)

\* the keys of _decompression_functions
decompression_markers == {MarkerZ, MarkerB}

\* _decompression_functions[pfx]
decompression_function(pfx, data) ==
    IF pfx = MarkerZ THEN zlib_decompress(data) ELSE bz2_decompress(data)

\* Objects of at most this many bytes are never compressed.
MinCompressLen == 100

\* _decompress handing the whole value, marker included, to the library.
decompress_keeps_marker(data) ==
    IF data = None THEN TypeError
    ELSE IF Take(data, 2) \notin decompression_markers THEN data
    ELSE decompression_function(Take(data, 2), data)

\* LocalClient._decompress; None[:2] is a TypeError.
_decompress(data) ==
    IF data = None THEN TypeError
    ELSE LET pfx == Take(data, 2)
         IN  IF pfx \notin decompression_markers THEN data
             ELSE decompression_function(pfx, Drop(data, 2))

\* _compress putting the marker in front of data it leaves uncompressed.
compress_marks_stored(alg, data) ==
    IF /\ data # None
       /\ data # <<>>
       /\ Len(data) > MinCompressLen
       /\ Take(data, 2) \notin decompression_markers
    THEN LET compressed == compression_marker(alg) \o compress_function(alg, data)
         IN  IF Len(compressed) < Len(data) THEN compressed
             ELSE compression_marker(alg) \o data
    ELSE data

\* LocalClient._compress, for the algorithms that have a compress function.
_compress(alg, data) ==
    IF /\ data # None
       /\ data # <<>>
       /\ Len(data) > MinCompressLen
       /\ Take(data, 2) \notin decompression_markers
    THEN LET compressed == compression_marker(alg) \o compress_function(alg, data)
         IN  IF Len(compressed) < Len(data) THEN compressed ELSE data
    ELSE data

\* cvalue = compress(state_bytes) if compress else state_bytes:
\* with the algorithm 'none' the method is replaced by None (__init__).
compress_value(alg, state_bytes) ==
    IF alg = "none" THEN state_bytes ELSE _compress(alg, state_bytes)

-----------------------------------------------------------------------------
(* The bucket: relstorage.cache.mapping.SizedLRUMapping, a segmented LRU    *)
(* of three generations.  A bucket is the sequence of its entries from the *)
(* least to the most recently used; an entry is                            *)
(* [key |-> <<oid, tid>>, value |-> <<state, actual_tid>>, gen, frequency].*)

\* LocalClient.key_weight: two 64-bit integers.
key_weight(key) == 32

\* value_weight forgetting the 64-bit integer next to the state.
value_weight_state_only(value) ==
    Len(IF value[1] # None /\ value[1] # <<>> THEN value[1] ELSE <<>>)

\* LocalClient.value_weight
value_weight(value) ==
    Len(IF value[1] # None /\ value[1] # <<>> THEN value[1] ELSE <<>>) + 16

entry_weight(e) == key_weight(e.key) + value_weight(e.value)

RECURSIVE size(_)
size(b) == IF b = <<>> THEN 0 ELSE entry_weight(Head(b)) + size(Tail(b))

RemoveAt(b, i) == SubSeq(b, 1, i - 1) \o SubSeq(b, i + 1, Len(b))

\* The position of key in the bucket, 0 when it is absent.
IndexOf(b, key) ==
    IF \E i \in 1..Len(b) : b[i].key = key
    THEN CHOOSE i \in 1..Len(b) : b[i].key = key
    ELSE 0

Contains(b, key) == IndexOf(b, key) # 0

ValueOf(b, key) == b[IndexOf(b, key)].value

\* The least recently used entry of a generation, 0 when it is empty.
LRUOf(b, gen) ==
    IF \E i \in 1..Len(b) : b[i].gen = gen
    THEN CHOOSE i \in 1..Len(b) :
             b[i].gen = gen /\ \A j \in 1..(i - 1) : b[j].gen # gen
    ELSE 0

\* A hit in eden moves the entry to probation once it was used this often.
EdenPromote == 2

\* One hit: the frequency goes up and the entry moves toward protected.
Touch(b, key) ==
    LET i == IndexOf(b, key)
        e == b[i]
        f == e.frequency + 1
        g == IF e.gen = "eden"
             THEN (IF f >= EdenPromote THEN "probation" ELSE "eden")
             ELSE "protected"
    IN  IF i = 0 THEN b
        ELSE Append(RemoveAt(b, i), [e EXCEPT !.frequency = f, !.gen = g])

\* get_and_bubble_all: the keys found, each of them touched.  The result
\* map is the bucket before the call restricted to keys.
RECURSIVE get_and_bubble_all(_, _)
get_and_bubble_all(b, keys) ==
    IF keys = <<>> THEN b
    ELSE get_and_bubble_all(Touch(b, Head(keys)), Tail(keys))

\* Evictions go on until the weights fit under the limit: the LRU of eden
\* first (admitted to probation when it is used more than probation's LRU),
\* then the LRU of probation, then the LRU of protected.
RECURSIVE Evict(_, _)
Evict(b, lim) ==
    IF size(b) <= lim THEN b
    ELSE LET e == LRUOf(b, "eden")
             p == LRUOf(b, "probation")
             q == LRUOf(b, "protected")
         IN  IF e # 0
             THEN IF p # 0 /\ b[e].frequency > b[p].frequency
                  THEN Evict(Append(RemoveAt(RemoveAt(b, IF e > p THEN e ELSE p),
                                             IF e > p THEN p ELSE e),
                                    [b[e] EXCEPT !.gen = "probation"]), lim)
                  ELSE Evict(RemoveAt(b, e), lim)
             ELSE IF p # 0 THEN Evict(RemoveAt(b, p), lim)
             ELSE Evict(RemoveAt(b, q), lim)

\* SizedLRUMapping.__setitem__: a new key enters eden as its MRU; an
\* overwrite replaces the value in place and resets the frequency to 1.
bucket_set(b, key, value, lim) ==
    LET i == IndexOf(b, key)
        b1 == IF i = 0
              THEN Append(b, [key |-> key, value |-> value,
                              gen |-> "eden", frequency |-> 1])
              ELSE [b EXCEPT ![i].value = value, ![i].frequency = 1]
    IN  Evict(b1, lim)

\* bulk_update: the rows in the order given, each kept when it still fits.
RECURSIVE bulk_update(_, _, _)
bulk_update(b, rows, lim) ==
    IF rows = <<>> THEN b
    ELSE LET key == Head(rows)[1]
             value == Head(rows)[2]
             i == IndexOf(b, key)
             b1 == IF i = 0
                   THEN Append(b, [key |-> key, value |-> value,
                                   gen |-> "protected", frequency |-> 1])
                   ELSE [b EXCEPT ![i].value = value, ![i].frequency = 1]
         IN  bulk_update(IF size(b1) <= lim THEN b1 ELSE b, Tail(rows), lim)

RECURSIVE MaxFrequency(_)
MaxFrequency(b) ==
    IF b = <<>> THEN 0
    ELSE LET m == MaxFrequency(Tail(b))
         IN  IF Head(b).frequency > m THEN Head(b).frequency ELSE m

RECURSIVE ByFrequency(_, _, _)
ByFrequency(b, f, top) ==
    IF f > top THEN <<>>
    ELSE SelectSeq(b, LAMBDA e : e.frequency = f) \o ByFrequency(b, f + 1, top)

\* items_to_write(generations=(gen,)): the entries of one generation from
\* the least to the most popular, the older first among equals.
items_to_write(b, gen) ==
    ByFrequency(SelectSeq(b, LAMBDA e : e.gen = gen), 0, MaxFrequency(b))

-----------------------------------------------------------------------------
(* The snapshot file: an sqlite database.  tables says whether the schema  *)
(* exists; object_state is a set of rows [zoid, tid, frequency, state]     *)
(* with zoid as the primary key; checkpoints is <<>> or the row <<cp0, cp1>>. *)

NoFile == [tables |-> FALSE, object_state |-> {}, checkpoints |-> <<>>]

RowOf(rows, zoid) == CHOOSE r \in rows : r.zoid = zoid

HasRow(rows, zoid) == \E r \in rows : r.zoid = zoid

Reverse(q) == [i \in 1..Len(q) |-> q[Len(q) + 1 - i]]

\* The sum of entry[3] over the entries of one oid (the frequencies map).
RECURSIVE OidFrequency(_, _)
OidFrequency(entries, oid) ==
    IF entries = <<>> THEN 0
    ELSE (IF Head(entries).key[1] = oid THEN Head(entries).frequency ELSE 0)
             + OidFrequency(Tail(entries), oid)

\* One turn of the loop over reversed(entries): lines 363-383.  A newer
\* entry replaces entry_for_oid[2], the state, and nothing else.
WalkEntry(acc, e, frequency, frequency_threshold) ==
    LET oid == e.key[1]
        state == e.value[1]
        actual_tid == e.value[2]
    IN  IF acc.raised THEN acc
        ELSE IF ~HasRow(acc.rows, oid)
        THEN IF frequency > frequency_threshold
             THEN [acc EXCEPT !.rows = @ \cup {[zoid |-> oid, tid |-> actual_tid,
                                                 state |-> state,
                                                 frequency |-> frequency]}]
             ELSE acc
        ELSE LET entry_for_oid == RowOf(acc.rows, oid)
                 stored_tid == entry_for_oid.tid
             IN  IF stored_tid < actual_tid
                 THEN [acc EXCEPT !.rows = (@ \ {entry_for_oid})
                           \cup {[entry_for_oid EXCEPT !.state = state]}]
                 ELSE IF stored_tid = actual_tid /\ state # entry_for_oid.state
                 THEN [acc EXCEPT !.raised = TRUE]
                 ELSE acc

RECURSIVE WalkEntries(_, _, _, _)
WalkEntries(acc, entries, all, frequency_threshold) ==
    IF entries = <<>> THEN acc
    ELSE WalkEntries(WalkEntry(acc, Head(entries),
                               OidFrequency(all, Head(entries).key[1]),
                               frequency_threshold),
                     Tail(entries), all, frequency_threshold)

\* Lines 335-384 of _items_to_write, on the three lists that lines 331-333
\* got from the bucket: [raised, rows]; raised stands for
\* CacheCorruptedError, rows for newest_entries.values().
newest_entries(eden_entries, protected_entries, probation_entries) ==
    LET all == eden_entries \o protected_entries \o probation_entries
        a0 == [raised |-> FALSE, rows |-> {}]
        a1 == WalkEntries(a0, Reverse(eden_entries), all, 0)
        a2 == WalkEntries(a1, Reverse(protected_entries), all, 1)
    IN  WalkEntries(a2, Reverse(probation_entries), all, 0)

\* LocalClient._items_to_write with no other thread at work.
_items_to_write(b) ==
    newest_entries(items_to_write(b, "eden"),
                   items_to_write(b, "protected"),
                   items_to_write(b, "probation"))

\* The rows put into temp_state: lines 433-456.
Staged(object_state, rows) ==
    {row \in rows :
        ~ (\/ (HasRow(object_state, row.zoid)
                  /\ RowOf(object_state, row.zoid).tid >= row.tid)
           \/ row.state = None)}

\* INSERT ... ON CONFLICT(zoid) DO UPDATE ... WHERE excluded.tid > tid
MergeUpsert(object_state, temp_state) ==
    {IF HasRow(temp_state, d.zoid) /\ RowOf(temp_state, d.zoid).tid > d.tid
     THEN LET excluded == RowOf(temp_state, d.zoid)
          IN  [zoid |-> d.zoid, tid |-> excluded.tid, state |-> excluded.state,
               frequency |-> excluded.frequency + d.frequency]
     ELSE d : d \in object_state}
        \cup {t \in temp_state : ~HasRow(object_state, t.zoid)}

\* WITH newer_values AS (...)
newer_values(object_state, temp_state) ==
    {t \in temp_state :
        HasRow(object_state, t.zoid) /\ RowOf(object_state, t.zoid).tid < t.tid}

\* The UPDATE and the INSERT of lines 484-521.  In the subqueries
\* "WHERE newer_values.zoid = zoid" compares the column with itself, so
\* each of them yields the first row of newer_values: sqlite scans it in
\* zoid order.
MergeFallback(object_state, temp_state) ==
    LET nv == newer_values(object_state, temp_state)
        first == CHOOSE r \in nv : \A q \in nv : r.zoid <= q.zoid
        updated == {IF HasRow(nv, d.zoid)
                    THEN [zoid |-> d.zoid, tid |-> first.tid,
                          state |-> first.state,
                          frequency |-> first.frequency + d.frequency]
                    ELSE d : d \in object_state}
    IN  updated \cup {t \in temp_state : ~HasRow(updated, t.zoid)}

\* sqlite3.sqlite_version_info >= (3, 28)
Merge(upsert, object_state, temp_state) ==
    IF upsert THEN MergeUpsert(object_state, temp_state)
    ELSE MergeFallback(object_state, temp_state)

\* Lines 525-530: INSERT INTO checkpoints ... VALUES (0, ?, ?)
\* ON CONFLICT(id) DO UPDATE ... WHERE excluded.cp0 > cp0.  stored is <<>>
\* when the table has no row, else the row <<cp0, cp1>> of id 0.
PersistUpsert(stored, cp0, cp1) ==
    LET excluded == <<cp0, cp1>>
    IN  IF stored = <<>> THEN excluded
        ELSE IF excluded[1] > stored[1] THEN excluded ELSE stored

\* Lines 532-543: SELECT cp0, cp1 FROM checkpoints, then the INSERT when
\* there is no row and the UPDATE when row[0] < self.checkpoints[0].
PersistFallback(stored, cp0, cp1) ==
    LET row == stored
    IN  IF row = <<>> THEN <<cp0, cp1>>
        ELSE IF row[1] < cp0 THEN <<cp0, cp1>>
        ELSE row

\* The checkpoints row written whatever is stored.
persist_always(stored, cp0, cp1) == <<cp0, cp1>>

\* Lines 523-543, for the pair <<cp0, cp1>> read from self.checkpoints.
PersistCheckpoints(stored, cp0, cp1) ==
    IF supports_upsert THEN PersistUpsert(stored, cp0, cp1)
    ELSE PersistFallback(stored, cp0, cp1)

RowBytes(r) == Len(r.state)

\* SELECT SUM(LENGTH(state)) FROM object_state
RECURSIVE ByteCount(_)
ByteCount(object_state) ==
    IF object_state = {} THEN 0
    ELSE LET r == CHOOSE x \in object_state : TRUE
         IN  RowBytes(r) + ByteCount(object_state \ {r})

\* ORDER BY frequency ASC, tid ASC, zoid ASC
TrimBefore(r, q) ==
    \/ r.frequency < q.frequency
    \/ r.frequency = q.frequency /\ r.tid < q.tid
    \/ r.frequency = q.frequency /\ r.tid = q.tid /\ r.zoid <= q.zoid

\* The trim loop testing the total before it deletes the row at hand.
RECURSIVE trim_stops_early(_, _, _)
trim_stops_early(object_state, byte_count, target) ==
    IF object_state = {} THEN object_state
    ELSE LET row == CHOOSE r \in object_state :
                        \A q \in object_state : TrimBefore(r, q)
             left == byte_count - RowBytes(row)
         IN  IF left <= target THEN object_state
             ELSE trim_stops_early(object_state \ {row}, left, target)

\* The loop of lines 578-583: delete, then stop once the total fits.
RECURSIVE TrimLoop(_, _, _)
TrimLoop(object_state, byte_count, target) ==
    IF object_state = {} THEN object_state
    ELSE LET row == CHOOSE r \in object_state :
                        \A q \in object_state : TrimBefore(r, q)
             left == byte_count - RowBytes(row)
         IN  IF left <= target THEN object_state \ {row}
             ELSE TrimLoop(object_state \ {row}, left, target)

\* Lines 547-595.
Trim(object_state, lim) ==
    IF ByteCount(object_state) > lim
    THEN TrimLoop(object_state, ByteCount(object_state), lim)
    ELSE object_state

\* ORDER BY frequency, tid DESC
ReadBefore(r, q) ==
    \/ r.frequency < q.frequency
    \/ r.frequency = q.frequency /\ r.tid >= q.tid

\* The orders in which the cursor of line 285 may yield the rows.
ReadOrders(object_state) ==
    LET n == Cardinality(object_state)
    IN  {q \in [1..n -> object_state] :
            /\ \A i, j \in 1..n : i # j => q[i] # q[j]
            /\ \A i, j \in 1..n : i < j => ReadBefore(q[i], q[j])}

\* The loop of data(), lines 294-315: the rows read, in reading order.
RECURSIVE RowsRead(_, _, _)
RowsRead(cursor, bytes_read, lim) ==
    IF cursor = <<>> THEN <<>>
    ELSE LET n == bytes_read + Len(Head(cursor).state) + 32 + 16
         IN  IF n > lim THEN <<Head(cursor)>>
             ELSE <<Head(cursor)>> \o RowsRead(Tail(cursor), n, lim)

\* The reader with the last branch indexing under the older checkpoint.
restored_under_cp1(row, cp0, cp1) ==
    <<IF row.tid >= cp0 THEN <<row.zoid, row.tid>>
      ELSE IF row.tid >= cp1 THEN <<row.zoid, row.tid>>
      ELSE <<row.zoid, cp1>>,
      <<row.state, row.tid>>>>

\* key and value of one row read: lines 299-312.
RestoredItem(row, cp0, cp1) ==
    <<IF row.tid >= cp0 THEN <<row.zoid, row.tid>>
      ELSE IF row.tid >= cp1 THEN <<row.zoid, row.tid>>
      ELSE <<row.zoid, cp0>>,
      <<row.state, row.tid>>>>

RestoredItems(read, cp0, cp1) ==
    [i \in 1..Len(read) |-> RestoredItem(read[i], cp0, cp1)]

Range(q) == {q[i] : i \in 1..Len(q)}

delta_after0(read, cp0) ==
    {<<r.zoid, r.tid>> : r \in {x \in Range(read) : x.tid >= cp0}}

delta_after1(read, cp0, cp1) ==
    {<<r.zoid, r.tid>> : r \in {x \in Range(read) : x.tid < cp0 /\ x.tid >= cp1}}

-----------------------------------------------------------------------------
(* LocalClient: the facade.  Each operator is one method, from the state   *)
(* it finds to the state it leaves and what it returns.                    *)

\* tid2=None
NoTid == 0

NoneResult == [kind |-> "none", state |-> <<>>, tid |-> 0]

\* Lines 196-202: the state is decompressed outside the lock.
LookupResult(value) ==
    LET state == _decompress(value[1])
    IN  IF state \in {TypeError, ZlibError}
        THEN [kind |-> "raise", state |-> state, tid |-> 0]
        ELSE [kind |-> "value", state |-> state, tid |-> value[2]]

\* LocalClient.__setitem__ storing the value whatever its size.
setitem_any_size(b, oid_tid, state_bytes_tid) ==
    LET cvalue == compress_value(compression, state_bytes_tid[1])
    IN  bucket_set(b, oid_tid, <<cvalue, state_bytes_tid[2]>>, limit)

\* LocalClient.__setitem__
__setitem__(b, oid_tid, state_bytes_tid) ==
    IF limit = 0 THEN b
    ELSE LET cvalue == compress_value(compression, state_bytes_tid[1])
         IN  IF cvalue # None /\ cvalue # <<>> /\ Len(cvalue) >= value_limit
             THEN b
             ELSE bucket_set(b, oid_tid, <<cvalue, state_bytes_tid[2]>>, limit)

\* LocalClient.set_multi
RECURSIVE set_multi(_, _)
set_multi(b, keys_and_values) ==
    IF keys_and_values = <<>> THEN b
    ELSE set_multi(__setitem__(b, Head(keys_and_values)[1], Head(keys_and_values)[2]),
                   Tail(keys_and_values))

lookup_keys(oid, tid1, tid2) ==
    IF tid2 # NoTid THEN <<<<oid, tid1>>, <<oid, tid2>>>> ELSE <<<<oid, tid1>>>>

\* __call__ taking the fallback entry whenever it is there.
call_prefers_fallback(read, current, oid, tid1, tid2) ==
    LET keys == lookup_keys(oid, tid1, tid2)
        hit1 == Contains(read, keys[1])
        hit2 == tid2 # NoTid /\ Contains(read, keys[2])
    IN  [copied |-> FALSE,
         into |-> current,
         result |-> IF hit2 THEN LookupResult(ValueOf(read, keys[2]))
                    ELSE IF hit1 THEN LookupResult(ValueOf(read, keys[1]))
                    ELSE NoneResult]

\* __call__ returning the fallback hit without moving it.
call_without_copy(read, current, oid, tid1, tid2) ==
    LET keys == lookup_keys(oid, tid1, tid2)
        hit1 == Contains(read, keys[1])
        hit2 == tid2 # NoTid /\ Contains(read, keys[2])
    IN  [copied |-> FALSE,
         into |-> current,
         result |-> IF hit1 THEN LookupResult(ValueOf(read, keys[1]))
                    ELSE IF hit2 THEN LookupResult(ValueOf(read, keys[2]))
                    ELSE NoneResult]

\* LocalClient.__call__ from line 188 on.  read is the bucket whose
\* get_and_bubble_all was bound at line 179, as get(keys) finds it; current
\* is self.__bucket as line 193 finds it (read after get(keys), unless
\* flush_all replaced the bucket in between); into is how line 193 leaves it.
__call__(read, current, oid, tid1, tid2) ==
    LET keys == lookup_keys(oid, tid1, tid2)
        hit1 == Contains(read, keys[1])
        hit2 == tid2 # NoTid /\ Contains(read, keys[2])
        copy == ~hit1 /\ hit2
        data == ValueOf(read, keys[2])
    IN  [copied |-> copy,
         into |-> IF copy THEN bucket_set(current, keys[1], data, limit)
                  ELSE current,
         result |-> IF hit1 THEN LookupResult(ValueOf(read, keys[1]))
                    ELSE IF copy THEN LookupResult(data)
                    ELSE NoneResult]

\* What a lookup of these keys would raise the frequency of.
MaxFreq == 3

CanTouch(b, keys) ==
    \A i \in 1..Len(keys) :
        Contains(b, keys[i]) =>
            b[IndexOf(b, keys[i])].frequency
                + Cardinality({j \in 1..Len(keys) : keys[j] = keys[i]}) <= MaxFreq

-----------------------------------------------------------------------------
(* One thread on one facade: every call runs from its first line to its    *)
(* return before the next one starts.                                      *)

Insert(oid, v, state, tid) ==
    /\ bucket' = __setitem__(bucket, <<oid, v>>, <<state, tid>>)
    /\ UNCHANGED <<checkpoints, disk, confVars, codecVars, threadVars>>

InsertMany(keys_and_values) ==
    /\ bucket' = set_multi(bucket, keys_and_values)
    /\ UNCHANGED <<checkpoints, disk, confVars, codecVars, threadVars>>

\* LocalClient.__call__ on the one bucket there is: what it leaves and
\* what it returns.
lookup(b, oid, tid1, tid2) ==
    __call__(b, get_and_bubble_all(b, lookup_keys(oid, tid1, tid2)), oid, tid1, tid2)

Lookup(oid, tid1, tid2) ==
    /\ CanTouch(bucket, lookup_keys(oid, tid1, tid2))
    /\ bucket' = lookup(bucket, oid, tid1, tid2).into
    /\ UNCHANGED <<checkpoints, disk, confVars, codecVars, threadVars>>

\* LocalClient.flush_all
FlushAll ==
    /\ bucket' = <<>>
    /\ checkpoints' = <<>>
    /\ UNCHANGED <<disk, confVars, codecVars, threadVars>>

\* LocalClient.store_checkpoints
StoreCheckpoints(cp0, cp1) ==
    /\ checkpoints' = <<cp0, cp1>>
    /\ UNCHANGED <<bucket, disk, confVars, codecVars, threadVars>>

\* sqlite_connect(options, prefix, overwrite): a file that is overwritten
\* starts empty.
sqlite_connect(file, overwrite) == IF overwrite THEN NoFile ELSE file

\* write_to_sqlite up to the COMMIT of line 545, when nothing is raised.
Written(file, b, cps) ==
    LET temp_state == Staged(file.object_state, _items_to_write(b).rows)
    IN  [tables |-> TRUE,
         object_state |-> Merge(supports_upsert, file.object_state, temp_state),
         checkpoints |-> IF cps # <<>>
                         THEN PersistCheckpoints(file.checkpoints, cps[1], cps[2])
                         ELSE file.checkpoints]

\* write_to_sqlite: the file it leaves and how it ends.  The CREATE TABLE
\* statements run before _items_to_write, so the schema exists even when
\* that raises.  With no row in object_state SUM() is NULL, and
\* "None > self.limit" is a TypeError on Python 3 and False on Python 2.
write_to_sqlite(file, b, cps, python3) ==
    LET merged == Written(file, b, cps)
    IN  IF _items_to_write(b).raised
        THEN [file |-> [file EXCEPT !.tables = TRUE],
              raised |-> "CacheCorruptedError"]
        ELSE IF merged.object_state = {}
        THEN [file |-> merged, raised |-> IF python3 THEN "TypeError" ELSE "no"]
        ELSE [file |-> [merged EXCEPT
                           !.object_state = Trim(merged.object_state, limit)],
              raised |-> "no"]

\* save without the except clause of lines 116-119.
save_propagates(file, b, cps, overwrite, python3) ==
    IF cache_local_dir /\ size(b) # 0
    THEN LET w == write_to_sqlite(sqlite_connect(file, overwrite), b, cps, python3)
         IN  [file |-> w.file,
              result |-> IF w.raised = "no" THEN "pathname" ELSE w.raised]
    ELSE [file |-> file, result |-> "None"]

\* LocalClient.save: the file it leaves and what it returns or raises.
save(file, b, cps, overwrite, python3) ==
    IF cache_local_dir /\ size(b) # 0
    THEN LET w == write_to_sqlite(sqlite_connect(file, overwrite), b, cps, python3)
         IN  [file |-> w.file,
              result |-> IF w.raised = "TypeError" THEN "TypeError" ELSE "pathname"]
    ELSE [file |-> file, result |-> "None"]

Save(overwrite, python3) ==
    /\ disk' = save(disk, bucket, checkpoints, overwrite, python3).file
    /\ UNCHANGED <<bucket, checkpoints, confVars, codecVars, threadVars>>

\* restore reading a file without schema as an empty snapshot.
restore_without_schema(file, b, cps, cursor) ==
    IF cache_local_dir
    THEN LET cp0 == IF file.checkpoints # <<>> THEN file.checkpoints[1] ELSE 0
             cp1 == IF file.checkpoints # <<>> THEN file.checkpoints[2] ELSE 0
             read == RowsRead(cursor, 0, limit)
         IN  [bucket |-> bulk_update(b, Reverse(RestoredItems(read, cp0, cp1)), limit),
              checkpoints |-> IF file.checkpoints # <<>> THEN file.checkpoints ELSE cps,
              result |-> <<delta_after0(read, cp0), delta_after1(read, cp0, cp1)>>]
    ELSE [bucket |-> b, checkpoints |-> cps, result |-> "None"]

\* LocalClient.restore and read_from_sqlite with the cursor yielding the
\* rows in the given order: the bucket and the checkpoints it leaves and
\* what it returns.
restore(file, b, cps, cursor) ==
    IF cache_local_dir /\ file.tables
    THEN LET cp0 == IF file.checkpoints # <<>> THEN file.checkpoints[1] ELSE 0
             cp1 == IF file.checkpoints # <<>> THEN file.checkpoints[2] ELSE 0
             read == RowsRead(cursor, 0, limit)
         IN  [bucket |-> bulk_update(b, Reverse(RestoredItems(read, cp0, cp1)), limit),
              checkpoints |-> IF file.checkpoints # <<>> THEN file.checkpoints ELSE cps,
              result |-> <<delta_after0(read, cp0), delta_after1(read, cp0, cp1)>>]
    ELSE [bucket |-> b, checkpoints |-> cps, result |-> "None"]

Restore ==
    /\ \E cursor \in ReadOrders(disk.object_state) :
          LET r == restore(disk, bucket, checkpoints, cursor)
          IN  /\ bucket' = r.bucket
              /\ checkpoints' = r.checkpoints
    /\ UNCHANGED <<disk, confVars, codecVars, threadVars>>

-----------------------------------------------------------------------------
(* Spec: the calls a single thread makes on the cache, with their          *)
(* arguments drawn from small sets.  The limits are those of               *)
(* cache_local_mb = 0, 0.00005, 0.00011 and 0.00016: room for no entry,   *)
(* for one small entry, for two, for three.  The snapshot file is one an   *)
(* earlier run left.                                                       *)

OIDs == {1}
TIDs == {1, 2, 3}

StateA == <<97>>
StateB == <<98, 98>>
StateLong == Rep(65, MinCompressLen + 1)

States == {None, StateA, MarkerZ, StateLong}

Configs ==
    {[limit |-> 0, value_limit |-> 16384, compression |-> "zlib",
      file |-> [tables |-> TRUE, checkpoints |-> <<3, 2>>,
                object_state |-> {[zoid |-> 1, tid |-> 2, frequency |-> 1,
                                   state |-> StateA]}]],
     [limit |-> 110, value_limit |-> 16384, compression |-> "zlib",
      file |-> [tables |-> TRUE, checkpoints |-> <<3, 2>>,
                object_state |-> {[zoid |-> 1, tid |-> 1, frequency |-> 2,
                                   state |-> StateA]}]],
     [limit |-> 110, value_limit |-> 2, compression |-> "bz2",
      file |-> NoFile],
     [limit |-> 110, value_limit |-> 16384, compression |-> "none",
      file |-> [tables |-> TRUE, checkpoints |-> <<>>,
                object_state |-> {[zoid |-> 1, tid |-> 3, frequency |-> 2,
                                   state |-> StateLong]}]],
     [limit |-> 110, value_limit |-> 0, compression |-> "zlib",
      file |-> NoFile],
     [limit |-> 50, value_limit |-> 16384, compression |-> "none",
      file |-> [tables |-> TRUE, checkpoints |-> <<3, 2>>,
                object_state |-> {[zoid |-> 1, tid |-> 1, frequency |-> 1,
                                   state |-> StateA],
                                  [zoid |-> 2, tid |-> 3, frequency |-> 2,
                                   state |-> StateA],
                                  [zoid |-> 3, tid |-> 2, frequency |-> 2,
                                   state |-> StateA],
                                  [zoid |-> 4, tid |-> 1, frequency |-> 3,
                                   state |-> StateA]}]]}

\* insert((oid, v), (state, tid)): every state under its own version, one
\* state under every older version too, and the empty state b''.
InsertArgs ==
    {<<oid, v, state, v>> : oid \in OIDs, v \in TIDs, state \in States}
        \cup {a \in {<<oid, v, StateA, tid>> : oid \in OIDs, v \in TIDs, tid \in TIDs} :
                 a[4] < a[2]}
        \cup {<<oid, 1, <<>>, 1>> : oid \in OIDs}

ManyArgs ==
    {<<<<<<1, 1>>, <<StateA, 1>>>>, <<<<1, 2>>, <<StateLong, 2>>>>>>,
     <<<<<<1, 3>>, <<StateLong, 3>>>>, <<<<1, 2>>, <<None, 2>>>>>>,
     <<<<<<1, 3>>, <<StateA, 3>>>>, <<<<1, 1>>, <<StateA, 1>>>>>>}

NoCodec ==
    /\ cdata = <<>>
    /\ calgo = "none"
    /\ cstage = "idle"
    /\ cout = <<>>
    /\ cback = <<>>

\* One process, one thread.
Alone ==
    /\ procs = <<>>
    /\ threads = <<>>
    /\ retired = <<>>
    /\ clock = 0

Init ==
    /\ \E c \in Configs :
          /\ limit = c.limit
          /\ value_limit = c.value_limit
          /\ compression = c.compression
          /\ disk = c.file
    /\ cache_local_dir = TRUE
    /\ supports_upsert = TRUE
    /\ bucket = <<>>
    /\ checkpoints = <<>>
    /\ NoCodec
    /\ Alone

Next ==
    \/ /\ \E a \in InsertArgs : Insert(a[1], a[2], a[3], a[4])
       /\ UNCHANGED procs
    \/ /\ \E m \in ManyArgs : InsertMany(m)
       /\ UNCHANGED procs
    \/ /\ \E oid \in OIDs, tid1 \in TIDs, tid2 \in TIDs \cup {NoTid} :
             Lookup(oid, tid1, tid2)
       /\ UNCHANGED procs
    \/ /\ FlushAll
       /\ UNCHANGED procs
    \/ /\ Restore
       /\ UNCHANGED procs

Spec == Init /\ [][Next]_vars

-----------------------------------------------------------------------------
(* Properties of the calls of one thread.                                  *)

\* The weight of the live entries, counted from their keys and states.
RECURSIVE LiveWeight(_)
LiveWeight(b) ==
    IF b = <<>> THEN 0
    ELSE 32 + (IF Head(b).value[1] = None THEN 0 ELSE Len(Head(b).value[1])) + 16
            + LiveWeight(Tail(b))

(* C1: after any sequence of insert, insert_many, lookup, restore and      *)
(* flush_all, once each of them has returned, the weights of the live      *)
(* entries (32 per key, len(state) + 16 per value) sum to at most limit.   *)
C1_WeightWithinLimit == LiveWeight(bucket) <= limit

\* A bucket of several entries so full that no further entry would fit.
C1_Witness ==
    /\ Len(bucket) >= 2
    /\ LiveWeight(bucket) <= limit
    /\ LiveWeight(bucket) + 32 + 16 > limit

\* What lookup returns on a hit of (state, tid).
Hit(state, tid) == [kind |-> "value", state |-> state, tid |-> tid]

\* __setitem__ passes the state on to the bucket: lines 205-219.
Accepted(state) ==
    LET cvalue == compress_value(compression, state)
    IN  limit # 0 /\ ~(cvalue # None /\ cvalue # <<>> /\ Len(cvalue) >= value_limit)

\* A byte string that _decompress leaves alone.
Unmarked(state) == state # None /\ Take(state, 2) \notin decompression_markers

\* The bucket after insert((oid, v1), (s1, v1)); insert((oid, v2), (s2, v2)).
TwoInserts(oid, v1, s1, v2, s2) ==
    __setitem__(__setitem__(bucket, <<oid, v1>>, <<s1, v1>>), <<oid, v2>>, <<s2, v2>>)

(* C2 as stated: for any oid, after insert((oid, v1), (s1, v1)) and then   *)
(* insert((oid, v2), (s2, v2)) with v2 > v1, lookup(oid, v2, v1) returns   *)
(* (s2, v2).                                                               *)
C2_PreferredWinsAlways ==
    \A oid \in OIDs, v1 \in TIDs, v2 \in TIDs, s1 \in States, s2 \in States :
        v2 > v1 =>
            lookup(TwoInserts(oid, v1, s1, v2, s2), oid, v2, v1).result = Hit(s2, v2)

(* C2, amended: for any oid, after insert((oid, v1), (s1, v1)) and then    *)
(* insert((oid, v2), (s2, v2)) with v2 > v1, when the second insert was    *)
(* accepted (limit is not 0, the compressed state is shorter than          *)
(* cache_local_object_max), the bucket holds its entry and s2 is a byte    *)
(* string that does not begin with a marker, lookup(oid, v2, v1) returns   *)
(* (s2, v2), whatever is held under (oid, v1).                             *)
C2_PreferredWins ==
    \A oid \in OIDs, v1 \in TIDs, v2 \in TIDs, s1 \in States, s2 \in States :
        LET b == TwoInserts(oid, v1, s1, v2, s2)
        IN  (v2 > v1 /\ Unmarked(s2) /\ Accepted(s2) /\ Contains(b, <<oid, v2>>))
                => lookup(b, oid, v2, v1).result = Hit(s2, v2)

\* Both versions of one object were inserted with different states and are
\* held, and the lookup that prefers the newer one returns the newer one.
C2_Witness ==
    \E oid \in OIDs, v1 \in TIDs, v2 \in TIDs :
        /\ v2 > v1
        /\ Contains(bucket, <<oid, v1>>) /\ Contains(bucket, <<oid, v2>>)
        /\ ValueOf(bucket, <<oid, v1>>)[2] = v1
        /\ ValueOf(bucket, <<oid, v2>>)[2] = v2
        /\ ValueOf(bucket, <<oid, v1>>)[1] # ValueOf(bucket, <<oid, v2>>)[1]
        /\ lookup(bucket, oid, v2, v1).result.kind = "value"
        /\ lookup(bucket, oid, v2, v1).result.tid = v2
        /\ lookup(bucket, oid, v2, v1).result.state
               = _decompress(ValueOf(bucket, <<oid, v2>>)[1])

\* The bucket after insert((oid, v2), (s, t)), and what lookup(oid, v1, v2)
\* makes of it.
OneInsert(oid, v2, s, t) == __setitem__(bucket, <<oid, v2>>, <<s, t>>)

FallbackLookup(oid, v1, v2, s, t) == lookup(OneInsert(oid, v2, s, t), oid, v1, v2)

Cvalue(a) == compress_value(compression, a[3])

AfterInsert(a) == __setitem__(bucket, <<a[1], a[2]>>, <<a[3], a[4]>>)

(* C13 as stated: an insert whose compressed state has length >=           *)
(* cache_local_object_max, or any insert when the limit is zero, leaves    *)
(* the bucket exactly as it was, and a lookup of a key inserted only this  *)
(* way returns none.                                                       *)
C13_DiscardAlways ==
    \A a \in InsertArgs :
        (limit = 0 \/ (Cvalue(a) # None /\ Len(Cvalue(a)) >= value_limit))
            => /\ AfterInsert(a) = bucket
               /\ ~Contains(bucket, <<a[1], a[2]>>)
                      => lookup(AfterInsert(a), a[1], a[2], NoTid).result = NoneResult

(* C13, amended: an insert whose compressed state is not empty and has     *)
(* length >= cache_local_object_max, or any insert when the limit is zero, *)
(* leaves the bucket exactly as it was (no entry added, replaced or        *)
(* evicted), and a lookup of a key inserted only this way returns none.    *)
C13_DiscardNonEmpty ==
    \A a \in InsertArgs :
        (limit = 0 \/ (/\ Cvalue(a) # None
                       /\ Cvalue(a) # <<>>
                       /\ Len(Cvalue(a)) >= value_limit))
            => /\ AfterInsert(a) = bucket
               /\ ~Contains(bucket, <<a[1], a[2]>>)
                      => lookup(AfterInsert(a), a[1], a[2], NoTid).result = NoneResult

\* A cache that holds an entry and is offered a state that is too big,
\* under a key it does not hold and under the key it holds.
C13_Witness ==
    /\ limit > 0
    /\ bucket # <<>>
    /\ \E a, c \in InsertArgs :
           /\ a[3] = c[3]
           /\ Cvalue(a) \notin {None, <<>>}
           /\ Len(Cvalue(a)) >= value_limit
           /\ ~Contains(bucket, <<a[1], a[2]>>)
           /\ Contains(bucket, <<c[1], c[2]>>)
           /\ AfterInsert(a) = bucket
           /\ AfterInsert(c) = bucket

\* The keys the bucket holds.
KeysOf(b) == {b[i].key : i \in 1..Len(b)}

\* A stored state a lookup can hand back: a tombstone (None), or a byte
\* string that is not marked or is the marked output of a compressor.
Decodes(state) == state = None \/ _decompress(state) # ZlibError

\* The value of an entry as a lookup is to return it: the state decoded,
\* a tombstone as it is.
ValueReturned(value) ==
    Hit(IF value[1] = None THEN None ELSE _decompress(value[1]), value[2])

(* C15: lookup(oid, v1, v2) selects its result as follows.  If (oid, v1)   *)
(* is present its value is returned whatever is stored under (oid, v2),    *)
(* and no copy is made; if only (oid, v2) is present its value is          *)
(* returned; if neither is present the result is none and the set of keys  *)
(* in the bucket is unchanged.  v2 may be left out.                        *)
C15_ResultSelection ==
    \A oid \in OIDs, v1 \in TIDs, v2 \in TIDs \cup {NoTid} :
        LET r == lookup(bucket, oid, v1, v2)
            hit1 == Contains(bucket, <<oid, v1>>)
            hit2 == v2 # NoTid /\ Contains(bucket, <<oid, v2>>)
        IN  /\ (hit1 /\ Decodes(ValueOf(bucket, <<oid, v1>>)[1]))
                   => /\ r.result = ValueReturned(ValueOf(bucket, <<oid, v1>>))
                      /\ ~r.copied
                      /\ KeysOf(r.into) = KeysOf(bucket)
                      /\ \A k \in KeysOf(bucket) : ValueOf(r.into, k) = ValueOf(bucket, k)
            /\ (~hit1 /\ hit2 /\ Decodes(ValueOf(bucket, <<oid, v2>>)[1]))
                   => r.result = ValueReturned(ValueOf(bucket, <<oid, v2>>))
            /\ (~hit1 /\ ~hit2)
                   => /\ r.result = NoneResult
                      /\ KeysOf(r.into) = KeysOf(bucket)

\* The sum of len(state) + 48 over the rows collected.
RECURSIVE BytesCollected(_)
BytesCollected(read) ==
    IF read = <<>> THEN 0
    ELSE Len(Head(read).state) + 48 + BytesCollected(Tail(read))

(* C20: restore byte cap.  The rows that read_from_sqlite collects for the *)
(* bulk insertion, and records in the delta maps, have a total of          *)
(* len(state) + 48 per row that never exceeds the limit: reading stops     *)
(* before a row that would carry the total over the limit is collected.    *)
C20_RestoreByteCap ==
    (cache_local_dir /\ disk.tables) =>
        \A cursor \in ReadOrders(disk.object_state) :
            LET read == RowsRead(cursor, 0, limit)
                r == restore(disk, bucket, checkpoints, cursor)
            IN  /\ BytesCollected(read) <= limit
                /\ \A oid \in OIDs :
                       (\E k \in r.result[1] \cup r.result[2] : k[1] = oid)
                           => \E i \in 1..Len(read) : read[i].zoid = oid

\* The row is in the cache that restore() leaves: under the key the
\* reader gave it, with its state and tid.
Loaded(b, row, cps) ==
    LET cp0 == IF cps # <<>> THEN cps[1] ELSE 0
        cp1 == IF cps # <<>> THEN cps[2] ELSE 0
        item == RestoredItem(row, cp0, cp1)
    IN  Contains(b, item[1]) /\ ValueOf(b, item[1]) = item[2]

(* C21: when the snapshot holds more rows than fit under the restore byte  *)
(* cap, the rows that survive into the restored cache are the most popular *)
(* ones: no row is loaded while a row of strictly higher frequency is left *)
(* unread, and among rows of equal frequency no row is loaded while a row  *)
(* with a newer version is left unread.                                    *)
C21_MostPopularSurvive ==
    (cache_local_dir /\ disk.tables) =>
        \A cursor \in ReadOrders(disk.object_state) :
            LET read == RowsRead(cursor, 0, limit)
                unread == disk.object_state \ Range(read)
                r == restore(disk, <<>>, <<>>, cursor)
            IN  \A row \in Range(read) :
                    Loaded(r.bucket, row, disk.checkpoints) =>
                        \A u \in unread :
                            /\ u.frequency <= row.frequency
                            /\ u.frequency = row.frequency => u.tid <= row.tid

(* C23: restore preserves popularity.  Every entry loaded by restore() is  *)
(* handed to the bucket's bulk_update together with the frequency stored   *)
(* for its row in object_state, so that the restored entry's frequency     *)
(* equals the on-disk frequency.                                           *)
C23_RestorePreservesPopularity ==
    (cache_local_dir /\ disk.tables) =>
        \A cursor \in ReadOrders(disk.object_state) :
            LET read == RowsRead(cursor, 0, limit)
                r == restore(disk, <<>>, <<>>, cursor)
            IN  \A row \in Range(read) :
                    Loaded(r.bucket, row, disk.checkpoints) =>
                        \A i \in 1..Len(r.bucket) :
                            r.bucket[i].value = <<row.state, row.tid>>
                                /\ r.bucket[i].key[1] = row.zoid
                                => r.bucket[i].frequency = row.frequency

-----------------------------------------------------------------------------
(* The codec on its own: every input of CodecInputs under every algorithm. *)

MaxLen == 103

Alternating(n) == [i \in 1..n |-> IF i % 2 = 1 THEN 97 ELSE 98]

CodecPlain ==
    {Rep(65, n) : n \in {0, 1, 2, 3, MinCompressLen, MinCompressLen + 1, MaxLen}}
        \cup {Alternating(n) : n \in {2, MinCompressLen, MinCompressLen + 1, MaxLen}}
        \cup {<<46>>, <<46, 46>>, <<122, 46>>, Rep(46, MaxLen)}

CodecMarked ==
    {m \o t : m \in decompression_markers,
              t \in {<<>>, <<7>>, Rep(65, MaxLen), zlib_compress(Rep(65, 3)),
                     bz2_compress(Rep(65, 3))}}

CodecInputs == CodecPlain \cup CodecMarked

CodecInit ==
    /\ limit = 0
    /\ value_limit = 0
    /\ compression = "none"
    /\ cache_local_dir = FALSE
    /\ supports_upsert = TRUE
    /\ bucket = <<>>
    /\ checkpoints = <<>>
    /\ disk = NoFile
    /\ cdata \in CodecInputs
    /\ calgo \in Algorithms
    /\ cstage = "input"
    /\ cout = <<>>
    /\ cback = <<>>
    /\ Alone

CodecCompress ==
    /\ cstage = "input"
    /\ cout' = compress_value(calgo, cdata)
    /\ cstage' = "compressed"
    /\ UNCHANGED <<cdata, calgo, cback, confVars, cacheVars, procVars, threadVars>>

CodecDecompress ==
    /\ cstage = "compressed"
    /\ cback' = _decompress(cout)
    /\ cstage' = "done"
    /\ UNCHANGED <<cdata, calgo, cout, confVars, cacheVars, procVars, threadVars>>

CodecNext == CodecCompress \/ CodecDecompress

SpecCodec == CodecInit /\ [][CodecNext]_vars

-----------------------------------------------------------------------------
(* C10 as stated: decompress(compress(b)) = b for every byte string b and  *)
(* every algorithm, byte strings that begin with a marker included.        *)
C10_RoundTripAllBytes == cstage = "done" => cback = cdata

(* C10, amended: decompress(compress(b)) = b for every byte string b that  *)
(* does not begin with a marker (.z or .b), under every algorithm and for  *)
(* every length, those of at most 100 bytes included.                      *)
C10_RoundTripUnmarked ==
    (cstage = "done" /\ Take(cdata, 2) \notin decompression_markers)
        => cback = cdata

\* A byte string that was really compressed and came back unchanged.
C10_Witness ==
    /\ cstage = "done"
    /\ Take(cdata, 2) \notin decompression_markers
    /\ Take(cout, 2) \in decompression_markers
    /\ Len(cout) < Len(cdata)
    /\ cback = cdata

\* This call compressed cdata: what it returned is the marker of the
\* configured algorithm followed by the library's output for cdata.
CompressionApplied ==
    /\ calgo # "none"
    /\ cout = compression_marker(calgo) \o compress_function(calgo, cdata)

(* C11 as stated: compress(b) never returns output that starts with a      *)
(* marker (.z or .b) unless compression was applied to b by this call.     *)
C11_MarkerMeansCompressed ==
    (cstage # "input" /\ Take(cout, 2) \in decompression_markers)
        => CompressionApplied

(* C11, amended: compress(b) never returns output that starts with a       *)
(* marker unless compression was applied to b by this call or b itself     *)
(* starts with a marker, and then b is returned unchanged.                 *)
C11_MarkerMeansCompressedOrMarked ==
    (cstage # "input" /\ Take(cout, 2) \in decompression_markers)
        => \/ CompressionApplied /\ Take(cdata, 2) \notin decompression_markers
           \/ Take(cdata, 2) \in decompression_markers /\ cout = cdata

\* An unmarked byte string that came out compressed, behind the marker.
C11_Witness ==
    /\ cstage = "compressed"
    /\ Take(cdata, 2) \notin decompression_markers
    /\ Take(cout, 2) \in decompression_markers
    /\ CompressionApplied
    /\ cout # cdata

-----------------------------------------------------------------------------
(* SpecSnap: one process that fills its cache, saves it into the snapshot  *)
(* file and restores it, on either merge path of write_to_sqlite.          *)

SnapLimit == 150

MaxRowFrequency == 6

SnapOIDs == {1, 2}

\* A snapshot written by an earlier process.
SnapFiles ==
    {NoFile,
     [tables |-> TRUE, checkpoints |-> <<>>,
      object_state |-> {[zoid |-> 1, tid |-> 1, frequency |-> 1, state |-> StateB],
                        [zoid |-> 2, tid |-> 2, frequency |-> 2, state |-> StateB]}]}

\* insert((oid, v), (state, tid))
SnapInsertArgs ==
    {<<1, 2, StateB, 2>>, <<1, 3, StateA, 2>>, <<1, 1, StateA, 1>>,
     <<2, 3, StateA, 3>>, <<2, 1, None, 1>>}

SnapCheckpoints == {<<3, 2>>, <<2, 1>>}

\* lookup(oid, tid)
SnapLookupArgs == {<<1, 2>>, <<2, 3>>}

SnapInit ==
    /\ limit = SnapLimit
    /\ value_limit = 16384
    /\ compression = "zlib"
    /\ cache_local_dir = TRUE
    /\ supports_upsert \in BOOLEAN
    /\ bucket = <<>>
    /\ checkpoints = <<>>
    /\ disk \in SnapFiles
    /\ NoCodec
    /\ procs = <<[pc |-> "filling"]>>
    /\ threads = <<>>
    /\ retired = <<>>
    /\ clock = 0

\* Where the process is: it fills its cache, saves it, starts again with a
\* fresh cache, restores the snapshot, uses the cache and saves again.
At(pc) == procs[1].pc = pc

Goto(pc) == procs' = <<[pc |-> pc]>>

\* save() as long as the frequencies in the file stay within the bound.
SnapSave(overwrite, python3) ==
    /\ \A r \in save(disk, bucket, checkpoints, overwrite, python3).file.object_state :
          r.frequency <= MaxRowFrequency
    /\ Save(overwrite, python3)

SnapInsert ==
    /\ At("filling")
    /\ \E a \in SnapInsertArgs : Insert(a[1], a[2], a[3], a[4])
    /\ UNCHANGED procs

SnapLookup ==
    /\ At("filling")
    /\ \E k \in SnapLookupArgs : Lookup(k[1], k[2], NoTid)
    /\ UNCHANGED procs

SnapStoreCheckpoints ==
    /\ At("filling")
    /\ \E cp \in SnapCheckpoints : StoreCheckpoints(cp[1], cp[2])
    /\ UNCHANGED procs

SnapFirstSave ==
    /\ At("filling")
    /\ \E overwrite \in BOOLEAN, python3 \in BOOLEAN : SnapSave(overwrite, python3)
    /\ Goto("saved")

SnapRestart ==
    /\ At("saved")
    /\ FlushAll
    /\ Goto("fresh")

SnapRestore ==
    /\ At("fresh")
    /\ Restore
    /\ Goto("restored")

SnapUse ==
    /\ At("restored")
    /\ \E k \in SnapLookupArgs : Lookup(k[1], k[2], NoTid)
    /\ UNCHANGED procs

SnapSecondSave ==
    /\ At("restored")
    /\ \E python3 \in BOOLEAN : SnapSave(FALSE, python3)
    /\ Goto("done")

SnapNext ==
    \/ SnapInsert
    \/ SnapLookup
    \/ SnapStoreCheckpoints
    \/ SnapFirstSave
    \/ SnapRestart
    \/ SnapRestore
    \/ SnapUse
    \/ SnapSecondSave

SpecSnap == SnapInit /\ [][SnapNext]_vars

-----------------------------------------------------------------------------
(* Properties of save and restore.                                         *)

EntriesOf(b, oid) == {i \in 1..Len(b) : b[i].key[1] = oid}

SoleEntry(b, oid) == b[CHOOSE i \in EntriesOf(b, oid) : TRUE]

\* The entry passes the frequency check of its generation (line 369).
PassesThreshold(e) == e.frequency > (IF e.gen = "protected" THEN 1 ELSE 0)

\* save() into the file as it is, without overwrite.
AfterSave == save(disk, bucket, checkpoints, FALSE, TRUE).file

(* C4: given an on-disk row (oid, v, s, f) and an in-memory entry for the  *)
(* same oid with (v', s', f'), after save() the on-disk row is             *)
(* (oid, v', s', f + f') when v' > v and is unchanged when v' <= v.  The   *)
(* entry is the only one of its oid, has a state, passes the frequency     *)
(* check, and the writer raises nothing.                                   *)
C4_MergeMonotone ==
    \A oid \in SnapOIDs :
        (/\ HasRow(disk.object_state, oid)
         /\ Cardinality(EntriesOf(bucket, oid)) = 1
         /\ SoleEntry(bucket, oid).value[1] # None
         /\ PassesThreshold(SoleEntry(bucket, oid))
         /\ ~_items_to_write(bucket).raised)
            => LET d == RowOf(disk.object_state, oid)
                   e == SoleEntry(bucket, oid)
               IN  /\ HasRow(AfterSave.object_state, oid)
                   /\ RowOf(AfterSave.object_state, oid) =
                          IF e.value[2] > d.tid
                          THEN [zoid |-> oid, tid |-> e.value[2],
                                state |-> e.value[1],
                                frequency |-> d.frequency + e.frequency]
                          ELSE d

\* Two entries of one oid with one actual_tid and different states.
Corrupted(b) ==
    \E i, j \in 1..Len(b) :
        /\ b[i].key[1] = b[j].key[1]
        /\ b[i].value[2] = b[j].value[2]
        /\ b[i].value[1] # b[j].value[1]

(* C5: whenever the bucket holds two entries for the same oid with the     *)
(* same actual_tid but different states, the snapshot writer raises        *)
(* CacheCorruptedError and the rows and checkpoints on disk are not        *)
(* modified.                                                               *)
C5_CorruptionDetected ==
    Corrupted(bucket) =>
        LET w == write_to_sqlite(disk, bucket, checkpoints, TRUE)
        IN  /\ w.raised = "CacheCorruptedError"
            /\ w.file.object_state = disk.object_state
            /\ w.file.checkpoints = disk.checkpoints

\* save(overwrite=True), then restore into a fresh cache with the rows read
\* in the order of the cursor.
Saved == save(disk, bucket, checkpoints, TRUE, TRUE).file

Restored(cursor) == restore(Saved, <<>>, <<>>, cursor)

(* C9: saving a cache C into a fresh file and restoring into a fresh cache *)
(* yields C restricted to what fits: every restored value is a value C     *)
(* holds for that oid; an entry inserted as ((oid, v), (s, v)) with a      *)
(* state, the only one of its oid, is returned by lookup(oid, v) after     *)
(* restore and restore() returns ({oid: v}, {}) for it when no checkpoints *)
(* were set; checkpoints set before save are those get_checkpoints()       *)
(* returns after restore.  The writer raises nothing.                      *)
C9_RoundTrip ==
    (bucket # <<>> /\ ~_items_to_write(bucket).raised) =>
        \A cursor \in ReadOrders(Saved.object_state) :
            LET r == Restored(cursor)
            IN  /\ \A i \in 1..Len(r.bucket) :
                       \E j \in 1..Len(bucket) :
                           /\ bucket[j].key[1] = r.bucket[i].key[1]
                           /\ bucket[j].value = r.bucket[i].value
                /\ \A oid \in SnapOIDs :
                       (/\ Cardinality(EntriesOf(bucket, oid)) = 1
                        /\ SoleEntry(bucket, oid).value[1] # None
                        /\ SoleEntry(bucket, oid).value[2] = SoleEntry(bucket, oid).key[2]
                        /\ PassesThreshold(SoleEntry(bucket, oid))
                        /\ checkpoints = <<>>)
                           => LET e == SoleEntry(bucket, oid)
                              IN  /\ lookup(r.bucket, oid, e.key[2], NoTid).result
                                         = Hit(_decompress(e.value[1]), e.key[2])
                                  /\ e.key \in r.result[1]
                                  /\ r.result[2] = {}
                /\ checkpoints # <<>> => r.checkpoints = checkpoints

(* C16: only the newest entry of an object id is written.  Every row that  *)
(* _items_to_write produces carries the actual_tid and the state of one    *)
(* and the same entry of the bucket, the one with the greatest actual_tid  *)
(* among the entries of that oid in eden, protected and probation, in      *)
(* whatever order the entries are visited.                                 *)
C16_NewestEntryWritten ==
    ~_items_to_write(bucket).raised =>
        \A row \in _items_to_write(bucket).rows :
            /\ \E i \in EntriesOf(bucket, row.zoid) :
                   bucket[i].value = <<row.state, row.tid>>
            /\ \A i \in EntriesOf(bucket, row.zoid) :
                   bucket[i].value[2] <= row.tid

(* C14: restore() from a snapshot file that has no checkpoints table       *)
(* returns None without raising and leaves the bucket and the checkpoints  *)
(* in memory as they were.                                                 *)
C14_NoSchemaNoRestore ==
    ~disk.tables =>
        \A cursor \in ReadOrders(disk.object_state) :
            restore(disk, bucket, checkpoints, cursor)
                = [bucket |-> bucket, checkpoints |-> checkpoints, result |-> "None"]

\* A cache with entries and checkpoints, and a file nothing was saved into.
C14_Witness ==
    /\ ~disk.tables
    /\ cache_local_dir
    /\ bucket # <<>>
    /\ checkpoints # <<>>
    /\ restore(disk, bucket, checkpoints, <<>>).result = "None"

\* The key the row is to be indexed under, given the checkpoints.
ClassifiedKey(row, cp0, cp1) ==
    IF row.tid >= cp1 THEN <<row.zoid, row.tid>> ELSE <<row.zoid, cp0>>

C22_BetweenCheckpoints ==
    /\ procs[1].pc = "restored"
    /\ disk.checkpoints # <<>>
    /\ \E row \in disk.object_state :
           /\ disk.checkpoints[2] <= row.tid
           /\ row.tid < disk.checkpoints[1]
           /\ \E i \in 1..Len(bucket) : bucket[i].key = <<row.zoid, row.tid>>

\* A step of SpecSnap that is a call of save().
SaveStep ==
    /\ procs[1].pc \in {"filling", "restored"}
    /\ procs'[1].pc \in {"saved", "done"}

\* save() runs the writer and the writer raises CacheCorruptedError.
HitsCorruption(b) ==
    cache_local_dir /\ size(b) # 0 /\ _items_to_write(b).raised

(* C12: when save() hits cache corruption in the writer, save() returns    *)
(* the snapshot path instead of raising, the bucket and the checkpoints in *)
(* memory are left as they were, and every lookup and insert made          *)
(* afterwards does what it would have done without the save().             *)
C12_CorruptionSwallowed ==
    [][(SaveStep /\ HitsCorruption(bucket)) =>
          /\ \A overwrite \in BOOLEAN, python3 \in BOOLEAN :
                 save(disk, bucket, checkpoints, overwrite, python3).result
                     = "pathname"
          /\ bucket' = bucket
          /\ checkpoints' = checkpoints
          /\ \A k \in SnapLookupArgs :
                 lookup(bucket', k[1], k[2], NoTid) = lookup(bucket, k[1], k[2], NoTid)
          /\ \A a \in SnapInsertArgs :
                 __setitem__(bucket', <<a[1], a[2]>>, <<a[3], a[4]>>)
                     = __setitem__(bucket, <<a[1], a[2]>>, <<a[3], a[4]>>)]_vars

\* save() has returned from a writer that raised CacheCorruptedError: the
\* schema is there and the cache still holds its entries.
C12_Witness ==
    /\ At("saved")
    /\ HitsCorruption(bucket)
    /\ disk.tables
    /\ Len(bucket) >= 2

-----------------------------------------------------------------------------
(* SpecProcs: several processes, each with a cache of its own, save into   *)
(* one snapshot file.  A save is three transactions: the staging of        *)
(* lines 429-457, the merge under BEGIN IMMEDIATE of lines 463-545 and the *)
(* trim of lines 553-586; other processes commit in between.  A process    *)
(* is [pc, rows, cps, temp_state, saves]: rows is what its                 *)
(* _items_to_write returned, cps its self.checkpoints.                     *)

Procs == {1, 2}

MaxSaves == 2

ProcLimit == 3

\* newest_entries.values() of the caches of the processes
ProcRows ==
    {{[zoid |-> 1, tid |-> 2, state |-> StateA, frequency |-> 1],
      [zoid |-> 2, tid |-> 3, state |-> StateA, frequency |-> 1]},
     {[zoid |-> 1, tid |-> 3, state |-> StateB, frequency |-> 1]},
     {[zoid |-> 1, tid |-> 1, state |-> StateB, frequency |-> 1],
      [zoid |-> 2, tid |-> 1, state |-> StateB, frequency |-> 2]}}

\* self.checkpoints of the processes: None or a pair
ProcCheckpoints == {<<>>, <<2, 1>>, <<3, 1>>, <<3, 2>>}

ProcsInit ==
    /\ limit = ProcLimit
    /\ value_limit = 16384
    /\ compression = "zlib"
    /\ cache_local_dir = TRUE
    /\ supports_upsert \in BOOLEAN
    /\ bucket = <<>>
    /\ checkpoints = <<>>
    /\ disk \in SnapFiles
    /\ NoCodec
    /\ procs = [p \in Procs |-> [pc |-> "start", rows |-> {}, cps |-> <<>>,
                                 temp_state |-> {}, saves |-> 0]]
    /\ threads = <<>>
    /\ retired = <<>>
    /\ clock = 0

\* Lines 397-457: the schema, then the rows that are newer than the tids
\* this process finds stored go into its temp_state.
ProcStage(p, rows, cps) ==
    /\ procs[p].pc = "start"
    /\ procs[p].saves < MaxSaves
    /\ procs' = [procs EXCEPT ![p] = [pc |-> "staged", rows |-> rows, cps |-> cps,
                                      temp_state |-> Staged(disk.object_state, rows),
                                      saves |-> @.saves + 1]]
    /\ disk' = [disk EXCEPT !.tables = TRUE]
    /\ UNCHANGED <<bucket, checkpoints, confVars, codecVars, threadVars>>

\* Lines 463-545: the merge of temp_state and the checkpoints row, in one
\* immediate transaction.
ProcMerge(p) ==
    /\ procs[p].pc = "staged"
    /\ \A r \in Merge(supports_upsert, disk.object_state, procs[p].temp_state) :
          r.frequency <= MaxRowFrequency
    /\ disk' = [disk EXCEPT !.object_state =
                                Merge(supports_upsert, @, procs[p].temp_state),
                            !.checkpoints =
                                IF procs[p].cps # <<>>
                                THEN PersistCheckpoints(@, procs[p].cps[1],
                                                        procs[p].cps[2])
                                ELSE @]
    /\ procs' = [procs EXCEPT ![p].pc = "merged", ![p].temp_state = {}]
    /\ UNCHANGED <<bucket, checkpoints, confVars, codecVars, threadVars>>

\* Lines 548-550: the size of the states, read outside any transaction.
ProcByteCount(p) ==
    /\ procs[p].pc = "merged"
    /\ procs' = [procs EXCEPT ![p].pc =
                     IF ByteCount(disk.object_state) > limit THEN "trimming"
                     ELSE "start"]
    /\ UNCHANGED <<bucket, checkpoints, disk, confVars, codecVars, threadVars>>

\* Lines 553-586: the size is read again under the lock, then the trim.
ProcTrim(p) ==
    /\ procs[p].pc = "trimming"
    /\ disk' = [disk EXCEPT !.object_state = Trim(@, limit)]
    /\ procs' = [procs EXCEPT ![p].pc = "start"]
    /\ UNCHANGED <<bucket, checkpoints, confVars, codecVars, threadVars>>

ProcsNext ==
    \/ \E p \in Procs, rows \in ProcRows, cps \in ProcCheckpoints :
           ProcStage(p, rows, cps)
    \/ \E p \in Procs : ProcMerge(p)
    \/ \E p \in Procs : ProcByteCount(p)
    \/ \E p \in Procs : ProcTrim(p)

SpecProcs == ProcsInit /\ [][ProcsNext]_vars

\* The row a process staged for this oid, if it has one.
StagedBy(p, row) ==
    \E t \in procs[p].temp_state :
        t.zoid = row.zoid /\ t.tid = row.tid /\ t.state = row.state

(* C6: under every interleaving of the staging, merge and trim             *)
(* transactions of the processes, the version stored on disk for an oid    *)
(* never decreases, and a row is only ever replaced by a staged row with a *)
(* strictly greater version.                                               *)
C6_VersionsNeverDecrease ==
    [][\A oid \in SnapOIDs :
          (HasRow(disk.object_state, oid) /\ HasRow(disk'.object_state, oid))
              => LET d == RowOf(disk.object_state, oid)
                     n == RowOf(disk'.object_state, oid)
                 IN  /\ n.tid >= d.tid
                     /\ n # d => /\ n.tid > d.tid
                                 /\ \E p \in Procs : StagedBy(p, n)]_vars

(* C17: the two merge paths are equivalent.  For every contents of         *)
(* object_state and every temp_state a process staged, the two-statement   *)
(* fallback leaves object_state exactly as the single upsert statement     *)
(* does: each updated row receives the version, state and accumulated      *)
(* frequency of the staged row of its own object id.                       *)
C17_MergePathsEquivalent ==
    \A p \in Procs :
        procs[p].pc = "staged" =>
            MergeFallback(disk.object_state, procs[p].temp_state)
                = MergeUpsert(disk.object_state, procs[p].temp_state)

\* A step in which process p commits its merge transaction.
MergeStep(p) == procs[p].pc = "staged" /\ procs'[p].pc = "merged"

(* C18: checkpoint persistence is monotone in cp0.  A save() that holds a  *)
(* pair (cp0, cp1) in memory writes it to the checkpoints row if and only  *)
(* if no row is stored yet or cp0 is strictly greater than the stored cp0; *)
(* otherwise the stored pair is unchanged.  Over every sequence of saves   *)
(* by the processes the stored cp0 never decreases and the row never       *)
(* disappears, and the upsert and the SELECT-then-INSERT-or-UPDATE         *)
(* fallback give the same row.                                             *)
C18_CheckpointsMonotone ==
    [][/\ \A p \in Procs :
              (MergeStep(p) /\ procs[p].cps # <<>>) =>
                  LET cps == procs[p].cps
                  IN  /\ disk'.checkpoints =
                             IF disk.checkpoints = <<>> \/ cps[1] > disk.checkpoints[1]
                             THEN cps
                             ELSE disk.checkpoints
                      /\ PersistUpsert(disk.checkpoints, cps[1], cps[2])
                             = PersistFallback(disk.checkpoints, cps[1], cps[2])
       /\ \A p \in Procs :
              (MergeStep(p) /\ procs[p].cps = <<>>) =>
                  disk'.checkpoints = disk.checkpoints
       /\ disk.checkpoints # <<>> =>
              /\ disk'.checkpoints # <<>>
              /\ disk'.checkpoints[1] >= disk.checkpoints[1]]_vars

\* One process has stored its pair, and another one whose cp0 is not
\* greater has merged since and left the stored pair alone.
C18_Witness ==
    \E p, q \in Procs :
        /\ p # q
        /\ procs[p].pc = "merged"
        /\ procs[p].cps # <<>>
        /\ procs[q].cps = disk.checkpoints
        /\ procs[q].saves >= 1
        /\ procs[q].pc = "start"
        /\ procs[p].cps # disk.checkpoints
        /\ procs[p].cps[1] <= disk.checkpoints[1]

\* r comes no later than q by (frequency, version, object id) ascending.
Precedes(r, q) ==
    IF r.frequency # q.frequency THEN r.frequency < q.frequency
    ELSE IF r.tid # q.tid THEN r.tid < q.tid
    ELSE r.zoid <= q.zoid

\* What a trim may make of object_state.
TrimPost(before, after) ==
    /\ after \subseteq before
    /\ ByteCount(after) <= limit
    /\ ByteCount(before) <= limit => after = before
    /\ \A d \in before \ after :
           /\ \A k \in after : Precedes(d, k)
           /\ ByteCount(after \cup {x \in before \ after : Precedes(d, x)}) > limit

(* C19: when write_to_sqlite returns and no other writer ran during its    *)
(* trim, the sum of LENGTH(state) over object_state is at most the limit;  *)
(* rows are deleted only when the total exceeded the limit, in the order   *)
(* (frequency, version, object id) ascending, and the deletion stops at    *)
(* the first row after which the total is <= limit, so no row is deleted   *)
(* while a row that precedes it in that order is kept.                     *)
C19_TrimPostCondition ==
    [][\A p \in Procs :
          /\ (procs[p].pc = "trimming" /\ procs'[p].pc = "start")
                 => TrimPost(disk.object_state, disk'.object_state)
          /\ (procs[p].pc = "merged" /\ procs'[p].pc = "start")
                 => /\ ByteCount(disk'.object_state) <= limit
                    /\ disk'.object_state = disk.object_state]_vars

\* A process is about to trim a file of several rows of which some go
\* and some stay.
C19_Witness ==
    \E p \in Procs :
        /\ procs[p].pc = "trimming"
        /\ Cardinality(disk.object_state) >= 2
        /\ ByteCount(disk.object_state) > limit
        /\ Trim(disk.object_state, limit) # {}
        /\ Trim(disk.object_state, limit) # disk.object_state
        /\ TrimPost(disk.object_state, Trim(disk.object_state, limit))

-----------------------------------------------------------------------------
(* SpecThreads: several threads call one facade.  A step is what a thread  *)
(* does between two points where another thread may run: a critical        *)
(* section under self._lock, or one read or write of an attribute.  A      *)
(* thread is [op, args, pc, got, local, result, calls, called, returned];  *)
(* got is the bucket object whose get_and_bubble_all line 179 bound.       *)
(* Bucket objects are numbered: flush_all retires the current one,         *)
(* retired[i] is object i and bucket is object Len(retired) + 1.           *)

Threads == {1, 2}

MaxCalls == 1

ThreadLimit == 150

\* The cache after insert((1, 2), (StateA, 2)) and store_checkpoints(2, 1).
ThreadBucket == __setitem__(<<>>, <<1, 2>>, <<StateA, 2>>)

ThreadCheckpoints == <<2, 1>>

ThreadCalls ==
    {[op |-> "lookup", args |-> <<1, 1, 2>>],
     [op |-> "lookup", args |-> <<1, 2, NoTid>>],
     [op |-> "insert", args |-> <<1, 1, StateB, 1>>],
     [op |-> "flush_all", args |-> <<>>],
     [op |-> "store_checkpoints", args |-> <<3, 2>>],
     [op |-> "get_checkpoints", args |-> <<>>],
     [op |-> "save", args |-> <<>>]}

NoLocal ==
    [eden_entries |-> <<>>, protected_entries |-> <<>>, object_state |-> {},
     cp0 |-> 0, cp1 |-> 0, result |-> NoneResult]

ThreadsInit ==
    /\ limit = ThreadLimit
    /\ value_limit = 16384
    /\ compression = "zlib"
    /\ cache_local_dir = TRUE
    /\ supports_upsert = TRUE
    /\ bucket = ThreadBucket
    /\ checkpoints = ThreadCheckpoints
    /\ disk = NoFile
    /\ NoCodec
    /\ procs = <<>>
    /\ threads = [t \in Threads |->
                     [op |-> "none", args |-> <<>>, pc |-> "idle", got |-> 0,
                      local |-> NoLocal, result |-> <<>>, calls |-> 0,
                      called |-> 0, returned |-> 0]]
    /\ retired = <<>>
    /\ clock = 0

\* The first line of each method that touches what the threads share.
FirstLine(op) ==
    CASE op = "lookup" -> "L187"
      [] op = "insert" -> "L221"
      [] op = "flush_all" -> "L159"
      [] op = "store_checkpoints" -> "L230"
      [] op = "get_checkpoints" -> "L233"
      [] op = "save" -> "L111"

\* The call.  For a lookup this is line 179 too: the method of the bucket
\* object that is current now is bound to get.
ThreadCall(t, c) ==
    /\ threads[t].pc = "idle"
    /\ threads[t].calls < MaxCalls
    /\ c.op = "save" => \A u \in Threads : threads[u].op # "save"
    /\ threads' = [threads EXCEPT ![t] =
                      [op |-> c.op, args |-> c.args, pc |-> FirstLine(c.op),
                       got |-> Len(retired) + 1, local |-> NoLocal,
                       result |-> <<>>, calls |-> @.calls + 1,
                       called |-> clock + 1, returned |-> 0]]
    /\ clock' = clock + 1
    /\ UNCHANGED <<retired, cacheVars, confVars, codecVars, procVars>>

Return(t, result) ==
    /\ threads' = [threads EXCEPT ![t].pc = "idle", ![t].result = result,
                                  ![t].returned = clock + 1]
    /\ clock' = clock + 1

\* Lines 187-194, under the lock: get(keys) on the object bound at line
\* 179, the copy into self.__bucket as it is now.
LookupLocked(t) ==
    LET a == threads[t].args
        keys == lookup_keys(a[1], a[2], a[3])
        own == threads[t].got = Len(retired) + 1
        read == IF own THEN bucket ELSE retired[threads[t].got]
        bubbled == get_and_bubble_all(read, keys)
        r == __call__(read, IF own THEN bubbled ELSE bucket, a[1], a[2], a[3])
    IN  /\ threads[t].pc = "L187"
        /\ bucket' = r.into
        /\ retired' = IF own THEN retired
                      ELSE [retired EXCEPT ![threads[t].got] = bubbled]
        /\ threads' = [threads EXCEPT ![t].pc = "L196", ![t].local.result = r.result]
        /\ UNCHANGED <<clock, checkpoints, disk, confVars, codecVars, procVars>>

\* Lines 196-202, outside the lock.
LookupReturn(t) ==
    /\ threads[t].pc = "L196"
    /\ Return(t, threads[t].local.result)
    /\ UNCHANGED <<retired, cacheVars, confVars, codecVars, procVars>>

\* Lines 221-222
InsertLocked(t) ==
    LET a == threads[t].args
    IN  /\ threads[t].pc = "L221"
        /\ bucket' = __setitem__(bucket, <<a[1], a[2]>>, <<a[3], a[4]>>)
        /\ Return(t, NoneResult)
        /\ UNCHANGED <<retired, checkpoints, disk, confVars, codecVars, procVars>>

\* Lines 159-165
FlushLocked(t) ==
    /\ threads[t].pc = "L159"
    /\ retired' = Append(retired, bucket)
    /\ bucket' = <<>>
    /\ checkpoints' = <<>>
    /\ Return(t, NoneResult)
    /\ UNCHANGED <<disk, confVars, codecVars, procVars>>

\* Line 230
StoreCheckpointsLine(t) ==
    /\ threads[t].pc = "L230"
    /\ checkpoints' = threads[t].args
    /\ Return(t, NoneResult)
    /\ UNCHANGED <<retired, bucket, disk, confVars, codecVars, procVars>>

\* Line 233
GetCheckpointsLine(t) ==
    /\ threads[t].pc = "L233"
    /\ Return(t, checkpoints)
    /\ UNCHANGED <<retired, cacheVars, confVars, codecVars, procVars>>

\* Line 111: self.__bucket.size, read without the lock.
SaveSize(t) ==
    /\ threads[t].pc = "L111"
    /\ IF cache_local_dir /\ size(bucket) # 0
       THEN /\ threads' = [threads EXCEPT ![t].pc = "L331"]
            /\ clock' = clock
       ELSE Return(t, "None")
    /\ UNCHANGED <<retired, cacheVars, confVars, codecVars, procVars>>

\* Lines 331 and 332: items_to_write for eden, then for protected, each a
\* call on the bucket made without the lock.
SaveItemsToWrite(t) ==
    /\ threads[t].pc \in {"L331", "L332"}
    /\ threads' = IF threads[t].pc = "L331"
                  THEN [threads EXCEPT
                           ![t].pc = "L332",
                           ![t].local.eden_entries = items_to_write(bucket, "eden")]
                  ELSE [threads EXCEPT
                           ![t].pc = "L333",
                           ![t].local.protected_entries =
                               items_to_write(bucket, "protected")]
    /\ UNCHANGED <<clock, retired, cacheVars, confVars, codecVars, procVars>>

\* Line 333, the third call, and write_to_sqlite up to line 521: the rows
\* are merged inside the transaction that line 545 commits.
SaveMerge(t) ==
    LET new == newest_entries(threads[t].local.eden_entries,
                              threads[t].local.protected_entries,
                              items_to_write(bucket, "probation"))
    IN  /\ threads[t].pc = "L333"
        /\ IF ~new.raised
           THEN /\ threads' = [threads EXCEPT
                                  ![t].pc = "L523",
                                  ![t].local.object_state =
                                      Merge(supports_upsert, disk.object_state,
                                            Staged(disk.object_state, new.rows))]
                /\ clock' = clock
           ELSE Return(t, "pathname")
        /\ UNCHANGED <<retired, cacheVars, confVars, codecVars, procVars>>

\* Line 523: if self.checkpoints
SaveReadCheckpoints(t) ==
    /\ threads[t].pc = "L523"
    /\ threads' = [threads EXCEPT ![t].pc = IF checkpoints # <<>> THEN "L530" ELSE "L545"]
    /\ UNCHANGED <<clock, retired, cacheVars, confVars, codecVars, procVars>>

\* Line 530: self.checkpoints[0]; on None it raises TypeError and the
\* transaction is never committed.
SaveReadCp0(t) ==
    /\ threads[t].pc = "L530"
    /\ IF checkpoints # <<>>
       THEN /\ threads' = [threads EXCEPT ![t].pc = "L530b",
                                          ![t].local.cp0 = checkpoints[1]]
            /\ clock' = clock
       ELSE Return(t, "TypeError")
    /\ UNCHANGED <<retired, cacheVars, confVars, codecVars, procVars>>

\* Line 530: self.checkpoints[1]
SaveReadCp1(t) ==
    /\ threads[t].pc = "L530b"
    /\ IF checkpoints # <<>>
       THEN /\ threads' = [threads EXCEPT ![t].pc = "L545w",
                                          ![t].local.cp1 = checkpoints[2]]
            /\ clock' = clock
       ELSE Return(t, "TypeError")
    /\ UNCHANGED <<retired, cacheVars, confVars, codecVars, procVars>>

\* Lines 525-595: the pair goes into the file, COMMIT, then the trim.
SaveCommit(t) ==
    /\ threads[t].pc \in {"L545", "L545w"}
    /\ disk' = [tables |-> TRUE,
                object_state |-> Trim(threads[t].local.object_state, limit),
                checkpoints |-> IF threads[t].pc = "L545w"
                                THEN PersistCheckpoints(disk.checkpoints,
                                                        threads[t].local.cp0,
                                                        threads[t].local.cp1)
                                ELSE disk.checkpoints]
    /\ Return(t, "pathname")
    /\ UNCHANGED <<retired, bucket, checkpoints, confVars, codecVars, procVars>>

ThreadsNext ==
    \/ \E t \in Threads, c \in ThreadCalls : ThreadCall(t, c)
    \/ \E t \in Threads : LookupLocked(t)
    \/ \E t \in Threads : LookupReturn(t)
    \/ \E t \in Threads : InsertLocked(t)
    \/ \E t \in Threads : FlushLocked(t)
    \/ \E t \in Threads : StoreCheckpointsLine(t)
    \/ \E t \in Threads : GetCheckpointsLine(t)
    \/ \E t \in Threads : SaveSize(t)
    \/ \E t \in Threads : SaveItemsToWrite(t)
    \/ \E t \in Threads : SaveMerge(t)
    \/ \E t \in Threads : SaveReadCheckpoints(t)
    \/ \E t \in Threads : SaveReadCp0(t)
    \/ \E t \in Threads : SaveReadCp1(t)
    \/ \E t \in Threads : SaveCommit(t)

SpecThreads == ThreadsInit /\ [][ThreadsNext]_vars

-----------------------------------------------------------------------------
(* Properties of the threads.                                              *)

Returned(t) == threads[t].pc = "idle" /\ threads[t].calls > 0

\* One call run alone on bucket b: the bucket it leaves, what it returns.
RunAlone(b, c) ==
    CASE c.op = "lookup" ->
             [bucket |-> lookup(b, c.args[1], c.args[2], c.args[3]).into,
              result |-> lookup(b, c.args[1], c.args[2], c.args[3]).result]
      [] c.op = "insert" ->
             [bucket |-> __setitem__(b, <<c.args[1], c.args[2]>>,
                                     <<c.args[3], c.args[4]>>),
              result |-> NoneResult]
      [] c.op = "flush_all" -> [bucket |-> <<>>, result |-> NoneResult]

\* The calls of t and u, run one after the other in this order, return
\* what the threads saw and leave the bucket there is.
Explains(t, u) ==
    LET first == RunAlone(ThreadBucket, threads[t])
        second == RunAlone(first.bucket, threads[u])
    IN  /\ ~(threads[u].returned < threads[t].called)
        /\ first.result = threads[t].result
        /\ second.result = threads[u].result
        /\ second.bucket = bucket

(* C7: every concurrent history of lookup, insert and flush_all on one     *)
(* facade is linearizable: once two overlapping or successive calls have   *)
(* returned, some order of the two that respects their calls and returns   *)
(* explains what they returned and the bucket they left.                   *)
C7_Linearizable ==
    (\A t \in Threads :
         Returned(t) /\ threads[t].op \in {"lookup", "insert", "flush_all"})
        => \E t, u \in Threads : t # u /\ Explains(t, u)

\* The pairs that single store_checkpoints calls have stored.
StoredPairs ==
    {ThreadCheckpoints}
        \cup {threads[t].args : t \in {u \in Threads : threads[u].op = "store_checkpoints"}}

(* C8: checkpoint pairs are never observed torn: what get_checkpoints()    *)
(* returns and what the snapshot writer persists during save() is a pair   *)
(* that one single store_checkpoints call stored (or no pair at all),      *)
(* under any interleaving with store_checkpoints and flush_all.            *)
C8_NeverTorn ==
    /\ disk.checkpoints # <<>> => disk.checkpoints \in StoredPairs
    /\ \A t \in Threads :
           (Returned(t) /\ threads[t].op = "get_checkpoints")
               => threads[t].result \in StoredPairs \cup {<<>>}

\* The rows save() would write into an empty file from bucket b.
RowsFrom(b) == Written(NoFile, b, <<>>).object_state

\* The buckets there were while thread t was in save(): the one it was
\* called on and the one the other thread's call made of it.
BucketsDuring(t) ==
    {ThreadBucket}
        \cup {RunAlone(ThreadBucket, threads[u]).bucket :
                  u \in {v \in Threads \ {t} :
                             threads[v].op \in {"lookup", "insert", "flush_all"}}}

(* C24: every read or mutation of the bucket happens while the facade      *)
(* mutex is held; in particular the candidate collection of the snapshot   *)
(* writer during save() observes the bucket atomically with respect to     *)
(* concurrent insert and lookup calls of other threads: the rows it        *)
(* collects are those of one bucket there was during the save.             *)
C24_BucketUnderMutex ==
    \A t \in Threads :
        (threads[t].op = "save" /\ threads[t].pc \in {"L523", "L530", "L530b", "L545", "L545w"})
            => \E b \in BucketsDuring(t) : threads[t].local.object_state = RowsFrom(b)

-----------------------------------------------------------------------------
(* SpecOpen: Psycopg2ConnectionManager.open.  The process is               *)
(* procs[1] = [pc, self_selector, replica_selector, index, replica, dsn,   *)
(* attempts, conn, error]: the manager's own selector, the locals of       *)
(* open, one record per connect attempt, and how the call ended.  A        *)
(* replica is the string 'host' or 'host:port' split at the colon; None    *)
(* is the empty sequence.  A selector is the list of replicas it hands out *)
(* and whether next() starts over at the end of the list or yields None;   *)
(* index is its position.                                                  *)

NoReplica == <<>>

Replicas == {<<"db1">>, <<"db2", "5433">>}

_dsn == <<"dbname='zodb'">>

\* _alter_dsn: '%s host=%s port=%s' or '%s host=%s'
_alter_dsn(replica) ==
    IF Len(replica) > 1
    THEN _dsn \o <<"host=", replica[1], "port=", replica[2]>>
    ELSE _dsn \o <<"host=", replica[1]>>

NoSelector == [replicas |-> <<>>, cyclic |-> FALSE]

Selectors ==
    {[replicas |-> r, cyclic |-> c] :
        r \in {<<a>> : a \in Replicas} \cup {<<a, b>> : a, b \in Replicas},
        c \in BOOLEAN}

\* The connect attempts one call may make with a selector that starts over.
MaxAttempts == 3

\* replica_selector.current()
current(selector, index) == selector.replicas[index]

\* replica_selector.next(): the position it moves to and what it yields.
next(selector, index) ==
    IF index < Len(selector.replicas)
    THEN [index |-> index + 1, replica |-> selector.replicas[index + 1]]
    ELSE IF selector.cyclic
    THEN [index |-> 1, replica |-> selector.replicas[1]]
    ELSE [index |-> index, replica |-> NoReplica]

\* The handler going round again with the replica and DSN it had.
retries_same_replica(selector, index, replica, dsn) ==
    IF replica # NoReplica
    THEN LET n == next(selector, index)
         IN  IF n.replica # NoReplica
             THEN [continue |-> TRUE, index |-> n.index,
                   replica |-> replica, dsn |-> dsn]
             ELSE [continue |-> FALSE, index |-> n.index,
                   replica |-> replica, dsn |-> dsn]
    ELSE [continue |-> FALSE, index |-> index, replica |-> replica, dsn |-> dsn]

\* Lines 80-90: the except clause; continue, or the exception is re-raised.
use_replica_exceptions(selector, index, replica, dsn) ==
    IF replica # NoReplica
    THEN LET n == next(selector, index)
         IN  IF n.replica # NoReplica
             THEN [continue |-> TRUE, index |-> n.index,
                   replica |-> n.replica, dsn |-> _alter_dsn(n.replica)]
             ELSE [continue |-> FALSE, index |-> n.index,
                   replica |-> replica, dsn |-> dsn]
    ELSE [continue |-> FALSE, index |-> index, replica |-> replica, dsn |-> dsn]

OpenInit ==
    /\ limit = 0
    /\ value_limit = 0
    /\ compression = "none"
    /\ cache_local_dir = FALSE
    /\ supports_upsert = TRUE
    /\ bucket = <<>>
    /\ checkpoints = <<>>
    /\ disk = NoFile
    /\ NoCodec
    /\ threads = <<>>
    /\ retired = <<>>
    /\ clock = 0
    /\ \E s \in Selectors \cup {NoSelector} :
          procs = <<[pc |-> "idle", self_selector |-> s,
                     replica_selector |-> NoSelector, index |-> 0,
                     replica |-> NoReplica, dsn |-> <<>>, attempts |-> <<>>,
                     conn |-> <<>>, error |-> "none"]>>

\* Lines 52-67: the call, with the selector given or None, the selector
\* standing at any of its replicas.
OpenCall ==
    /\ procs[1].pc = "idle"
    /\ \E given \in Selectors \cup {NoSelector} :
          LET replica_selector == IF given = NoSelector
                                  THEN procs[1].self_selector ELSE given
          IN  IF replica_selector # NoSelector
              THEN \E i \in 1..Len(replica_selector.replicas) :
                      procs' = <<[procs[1] EXCEPT
                                    !.pc = "L71",
                                    !.replica_selector = replica_selector,
                                    !.index = i,
                                    !.replica = current(replica_selector, i),
                                    !.dsn = _alter_dsn(current(replica_selector, i))]>>
              ELSE procs' = <<[procs[1] EXCEPT !.pc = "L71", !.dsn = _dsn]>>
    /\ UNCHANGED <<confVars, cacheVars, codecVars, threadVars>>

\* Lines 70-79: one connect attempt.  It returns a connection, raises one
\* of driver.use_replica_exceptions, or raises something else, which no
\* clause of open catches.
Connect ==
    /\ procs[1].pc = "L71"
    /\ Len(procs[1].attempts) < MaxAttempts
    /\ \E outcome \in {"connected", "use_replica_exception", "other_exception"} :
          LET attempt == [replica |-> procs[1].replica, dsn |-> procs[1].dsn,
                          index |-> procs[1].index, outcome |-> outcome]
          IN  procs' = <<[procs[1] EXCEPT
                            !.attempts = Append(@, attempt),
                            !.pc = CASE outcome = "connected" -> "returned"
                                     [] outcome = "use_replica_exception" -> "L81"
                                     [] OTHER -> "raised",
                            !.conn = IF outcome = "connected"
                                     THEN <<[dsn |-> procs[1].dsn,
                                             replica |-> procs[1].replica]>>
                                     ELSE @,
                            !.error = IF outcome = "other_exception"
                                      THEN outcome ELSE @]>>
    /\ UNCHANGED <<confVars, cacheVars, codecVars, threadVars>>

\* Lines 80-90
Except ==
    /\ procs[1].pc = "L81"
    /\ LET h == use_replica_exceptions(procs[1].replica_selector, procs[1].index,
                                       procs[1].replica, procs[1].dsn)
       IN  procs' = <<[procs[1] EXCEPT
                         !.pc = IF h.continue THEN "L71" ELSE "raised",
                         !.index = h.index,
                         !.replica = h.replica,
                         !.dsn = h.dsn,
                         !.error = IF h.continue THEN @
                                   ELSE "use_replica_exception"]>>
    /\ UNCHANGED <<confVars, cacheVars, codecVars, threadVars>>

OpenNext ==
    \/ OpenCall
    \/ Connect
    \/ Except

\* The thread that called open() keeps running.
SpecOpen ==
    OpenInit /\ [][OpenNext]_vars /\ WF_vars(Connect) /\ WF_vars(Except)

\* The position after index in a selector's list.
Following(selector, index) ==
    IF index < Len(selector.replicas) THEN index + 1 ELSE 1

\* Attempt k raised a replica-class exception with a replica in use, and
\* attempt k + 1 was made with the replica next() yielded and its DSN.
FailedOver(p, k) ==
    LET a == p.attempts[k]
        b == p.attempts[k + 1]
    IN  /\ a.outcome = "use_replica_exception"
        /\ a.replica # NoReplica
        /\ b.index = Following(p.replica_selector, a.index)
        /\ b.replica = p.replica_selector.replicas[b.index]
        /\ b.dsn = _dsn \o (IF Len(b.replica) > 1
                            THEN <<"host=", b.replica[1], "port=", b.replica[2]>>
                            ELSE <<"host=", b.replica[1]>>)

\* open() returned the connection of its last attempt, the first to succeed.
ReturnedFirst(p) ==
    /\ p.attempts[Len(p.attempts)].outcome = "connected"
    /\ p.conn = <<[dsn |-> p.attempts[Len(p.attempts)].dsn,
                   replica |-> p.attempts[Len(p.attempts)].replica]>>
    /\ p.replica_selector = NoSelector
           => p.conn[1].replica = NoReplica /\ p.conn[1].dsn = _dsn

\* open() re-raised the error of its last attempt: there was no replica, or
\* next() had just yielded None.
Reraised(p) ==
    LET last == p.attempts[Len(p.attempts)]
    IN  /\ last.outcome = "use_replica_exception"
        /\ \/ p.replica_selector = NoSelector /\ Len(p.attempts) = 1
           \/ /\ p.replica_selector # NoSelector
              /\ ~p.replica_selector.cyclic
              /\ last.index = Len(p.replica_selector.replicas)

OpenSafe ==
    LET p == procs[1]
    IN  /\ \A k \in 1..(Len(p.attempts) - 1) : FailedOver(p, k)
        /\ p.pc = "L71" /\ p.attempts # <<>>
               => p.attempts[Len(p.attempts)].outcome = "use_replica_exception"
        /\ p.pc = "returned" => ReturnedFirst(p)
        /\ p.pc = "raised" /\ p.error = "use_replica_exception" => Reraised(p)
        /\ p.conn # <<>> => p.pc = "returned"

\* open() is connecting with no selector, or with one that yields None at
\* the end of its list.
Connecting ==
    /\ procs[1].pc \in {"L71", "L81"}
    /\ ~procs[1].replica_selector.cyclic

Ended == procs[1].pc \in {"returned", "raised"}

(* C25: replica failover in Psycopg2ConnectionManager.open.  Each connect  *)
(* attempt that raises a replica-class exception while a replica is in use *)
(* advances to replica_selector.next() and retries with that replica's     *)
(* DSN; open ends either by returning the first successful (conn, cursor)  *)
(* tagged with the replica actually used, or by re-raising the connect     *)
(* error as soon as next() yields None; with no replica selector the first *)
(* failure is re-raised with no retry.  The loop therefore terminates      *)
(* whenever the selector eventually yields None or a connect succeeds.     *)
C25_ReplicaFailover == []OpenSafe /\ (Connecting ~> Ended)

\* The first replica failed, the second one, given with its port, took the
\* connection.
C25_Witness ==
    /\ procs[1].pc = "returned"
    /\ Len(procs[1].attempts) = 2
    /\ procs[1].conn[1].replica = <<"db2", "5433">>
    /\ procs[1].attempts[1].replica = <<"db1">>

====
